---- MODULE Spec2Model ----
(***************************************************************************)
(* Model of the TCS3472 colour sensor driver (package tcs3472): the Dev    *)
(* handle, its maxCount field, the caller's Light, and the register        *)
(* transactions the driver issues on the bus.  The bus is the external     *)
(* collaborator: every transaction either succeeds or returns one of the   *)
(* transport errors, chosen nondeterministically.                          *)
(*                                                                         *)
(* The driver modelled is the revision that has MeasureRaw, in which Halt  *)
(* and SetGain write their registers.  The older revision, whose Halt and  *)
(* SetGain return nil without a bus transaction and whose Measure reads    *)
(* the clear count straight into the Light, appears below as HaltStub,     *)
(* SetGainStub and MeasureInPlace.                                         *)
(***************************************************************************)
EXTENDS Integers, Sequences, FiniteSets, TLC

VARIABLES
    handle,    \* whether the caller holds a *Dev returned by New
    maxCount,  \* Dev.maxCount
    regs,      \* the device's configuration registers, as last written
    light,     \* the caller's Light, passed to Measure
    call,      \* the last call: its argument, results and bus transactions
    halts      \* how many successful Halt calls were just made in a row

vars == <<handle, maxCount, regs, light, call, halts>>

----------------------------------------------------------------------------
(* Bounds of the model. *)

\* number of 2.4 ms steps enumerated from either end of the valid range
MaxSteps == 1
\* number of distinct transport errors the bus can return
MaxErrs == 2
\* number of distinct non-zero raw channel counts the sensor can return
MaxRaw == 1
\* cap of the count of consecutive successful Halt calls
MaxHalts == 2

----------------------------------------------------------------------------
(* Program constants. *)

chipID == 68
chipIDAlt == 77
cmdEnable == 128
cmdATime == 129
cmdGain == 143
cmdChipID == 146
cmdStatus == 147
cmdReadClear == 180
cmdReadRed == 182
cmdReadGreen == 184
cmdReadBlue == 186
enableRGBC == 2
enablePower == 1
statusValid == 1

ClearVal == 0
RedVal == 1
GreenVal == 2
BlueVal == 3

\* Gain codes G1x, G4x, G16x, G60x
Gain == {0, 1, 2, 3}

\* time.Millisecond and time.Microsecond, in nanoseconds
Millisecond == 1000000
Microsecond == 1000

\* the bounds of SetIntegrationTime's range check, the ATIME granularity
\* and the default integration time of New, in nanoseconds
MinDur == 2400 * Microsecond
MaxDur == 612 * Millisecond
ATimeStep == 2400000
DefaultDur == 511 * Millisecond

----------------------------------------------------------------------------
(* Values. *)

Min(a, b) == IF a < b THEN a ELSE b

uint8(x) == x % 256

\* error values: nil, a transport error, the range error of
\* SetIntegrationTime, the identification error of New
Nil == [kind |-> "nil", v |-> 0]
TransportErr(e) == [kind |-> "transport", v |-> e]
RangeErr == [kind |-> "range", v |-> 0]
ChipIDErr(id) == [kind |-> "chipid", v |-> id]

TransportErrs == {TransportErr(e) : e \in 1..MaxErrs}

\* outcome of a register write on the bus
WriteRes == {Nil} \cup TransportErrs

\* raw 16-bit channel counts the sensor returns in the model
RawSet == {0} \cup {300 * k : k \in 1..MaxRaw}

\* outcome of a register read: error and the value handed back
ReadRes8(vals) == [err : WriteRes, val : vals]

\* outcomes of four consecutive channel reads on the bus: the reads up to
\* the first failing one (k, none when k = 5) hand back any value; a read
\* after a failed one is never issued by a driver that stops there, and
\* would succeed with 0
OutcomeSeq(k, e, vs) ==
    [i \in 1..4 |-> [err |-> IF i = k THEN e ELSE Nil,
                     val |-> IF i <= k THEN vs[i] ELSE 0]]
ReadSeqs ==
    {OutcomeSeq(k, e, vs) :
        k \in 1..5, e \in TransportErrs, vs \in [1..4 -> RawSet]}

\* outcomes of the three transactions of New, likewise: the chip-ID read
\* hands back any byte when it succeeds, a transaction after the failed
\* one (k, none when k = 4) would succeed
NewOutcome(k, e, id) ==
    [id |-> [err |-> IF k = 1 THEN e ELSE Nil, val |-> IF k = 1 THEN 0 ELSE id],
     en |-> IF k = 2 THEN e ELSE Nil,
     at |-> IF k = 3 THEN e ELSE Nil]
NewOutcomes ==
    {NewOutcome(k, e, id) : k \in 1..4, e \in TransportErrs, id \in 0..255}

StatusSet == {0, 1, 16, 17}

\* durations offered to SetIntegrationTime, in nanoseconds
DurSet ==
    {0, -1, 1000 * Millisecond, DefaultDur}
    \cup {MinDur + k * ATimeStep + o : k \in 0..MaxSteps, o \in {-1, 0, 1}}
    \cup {MaxDur - k * ATimeStep + o : k \in 0..MaxSteps, o \in {-1, 0, 1}}

\* one bus transaction as seen on the bus: a write carries the byte
\* written, a successful read the data read, a failed read no data
W8(reg, val, res) == [op |-> "w8", reg |-> reg, val |-> val, err |-> res]
OnBus(res) == IF res.err = Nil THEN res.val ELSE 0
R8(reg, res) == [op |-> "r8", reg |-> reg, val |-> OnBus(res), err |-> res.err]
R16(reg, res) ==
    [op |-> "r16", reg |-> reg, val |-> OnBus(res), err |-> res.err]

\* the device's register after a write with outcome res
WriteReg(rg, reg, val, res) ==
    IF res = Nil THEN [rg EXCEPT ![reg] = val] ELSE rg

ConfigRegs == {cmdEnable, cmdATime, cmdGain}

NoRet == [valid |-> FALSE, vals |-> <<0, 0, 0, 0>>]

----------------------------------------------------------------------------
(* float32 quotients of two uint16 counts.  Both operands convert to       *)
(* float32 exactly; the quotient is the rounding of the exact rational,    *)
(* so it is a function of the reduced fraction, +Inf for x/0 with x > 0    *)
(* and NaN for 0/0.                                                        *)

RECURSIVE GCD(_, _)
GCD(a, b) == IF b = 0 THEN a ELSE GCD(b, a % b)

Fdiv(n, d) ==
    IF d = 0
    THEN IF n = 0 THEN [k |-> "nan", n |-> 0, d |-> 0]
                  ELSE [k |-> "inf", n |-> 1, d |-> 0]
    ELSE [k |-> "fin", n |-> n \div GCD(n, d), d |-> d \div GCD(n, d)]

FZero == [k |-> "fin", n |-> 0, d |-> 1]

ZeroLight == [Int |-> 0, R |-> FZero, G |-> FZero, B |-> FZero]

----------------------------------------------------------------------------
(* The driver's methods, as functions of the state they read and of the    *)
(* outcomes of the bus transactions they issue.                            *)

\* Max RGBC count stored by SetIntegrationTime for an ATIME code
DerivedMaxCount(atime) == Min(atime * 1024, 65535)

\* ATimeOf with the number of steps rounded up
ATimeOfRoundUp(dur) ==
    uint8(255 - uint8((dur + ATimeStep - 1) \div ATimeStep))

ATimeOf(dur) == uint8(255 - uint8(dur \div ATimeStep))

\* SetIntegrationTime with the range check after the update of maxCount
SetIntegrationTimeLateCheck(mc, rg, dur, wres) ==
    LET atime == ATimeOf(dur) IN
    IF dur < MinDur \/ dur > MaxDur
    THEN [err |-> RangeErr, maxCount |-> DerivedMaxCount(atime), regs |-> rg,
          log |-> <<>>]
    ELSE [err |-> wres,
          maxCount |-> DerivedMaxCount(atime),
          regs |-> WriteReg(rg, cmdATime, atime, wres),
          log |-> <<W8(cmdATime, atime, wres)>>]

SetIntegrationTime(mc, rg, dur, wres) ==
    IF dur < MinDur \/ dur > MaxDur
    THEN [err |-> RangeErr, maxCount |-> mc, regs |-> rg, log |-> <<>>]
    ELSE LET atime == ATimeOf(dur) IN
         [err |-> wres,
          maxCount |-> DerivedMaxCount(atime),
          regs |-> WriteReg(rg, cmdATime, atime, wres),
          log |-> <<W8(cmdATime, atime, wres)>>]

\* New that knows chipID only
NewOneChipID(rg, idRes, enRes, atRes) ==
    LET rd == <<R8(cmdChipID, idRes)>> IN
    IF idRes.err # Nil
    THEN [handle |-> FALSE, err |-> idRes.err, maxCount |-> 0,
          regs |-> rg, log |-> rd]
    ELSE IF idRes.val # chipID
    THEN [handle |-> FALSE, err |-> ChipIDErr(idRes.val), maxCount |-> 0,
          regs |-> rg, log |-> rd]
    ELSE LET en == enablePower + enableRGBC
             rg1 == WriteReg(rg, cmdEnable, en, enRes)
             wr == <<W8(cmdEnable, en, enRes)>>
         IN
         IF enRes # Nil
         THEN [handle |-> FALSE, err |-> enRes, maxCount |-> 0,
               regs |-> rg1, log |-> rd \o wr]
         ELSE LET s == SetIntegrationTime(0, rg1, DefaultDur, atRes) IN
              IF s.err # Nil
              THEN [handle |-> FALSE, err |-> s.err, maxCount |-> 0,
                    regs |-> s.regs, log |-> rd \o wr \o s.log]
              ELSE [handle |-> TRUE, err |-> Nil, maxCount |-> s.maxCount,
                    regs |-> s.regs, log |-> rd \o wr \o s.log]

\* New that does not check the result of the ENABLE write
NewIgnoreEnableErr(rg, idRes, enRes, atRes) ==
    LET rd == <<R8(cmdChipID, idRes)>> IN
    IF idRes.err # Nil
    THEN [handle |-> FALSE, err |-> idRes.err, maxCount |-> 0,
          regs |-> rg, log |-> rd]
    ELSE IF idRes.val # chipID /\ idRes.val # chipIDAlt
    THEN [handle |-> FALSE, err |-> ChipIDErr(idRes.val), maxCount |-> 0,
          regs |-> rg, log |-> rd]
    ELSE LET en == enablePower + enableRGBC
             rg1 == WriteReg(rg, cmdEnable, en, enRes)
             wr == <<W8(cmdEnable, en, enRes)>>
             s == SetIntegrationTime(0, rg1, DefaultDur, atRes)
         IN
         IF s.err # Nil
         THEN [handle |-> FALSE, err |-> s.err, maxCount |-> 0,
               regs |-> s.regs, log |-> rd \o wr \o s.log]
         ELSE [handle |-> TRUE, err |-> Nil, maxCount |-> s.maxCount,
               regs |-> s.regs, log |-> rd \o wr \o s.log]

New(rg, idRes, enRes, atRes) ==
    LET rd == <<R8(cmdChipID, idRes)>> IN
    IF idRes.err # Nil
    THEN [handle |-> FALSE, err |-> idRes.err, maxCount |-> 0,
          regs |-> rg, log |-> rd]
    ELSE IF idRes.val # chipID /\ idRes.val # chipIDAlt
    THEN [handle |-> FALSE, err |-> ChipIDErr(idRes.val), maxCount |-> 0,
          regs |-> rg, log |-> rd]
    ELSE LET en == enablePower + enableRGBC
             rg1 == WriteReg(rg, cmdEnable, en, enRes)
             wr == <<W8(cmdEnable, en, enRes)>>
         IN
         IF enRes # Nil
         THEN [handle |-> FALSE, err |-> enRes, maxCount |-> 0,
               regs |-> rg1, log |-> rd \o wr]
         ELSE LET s == SetIntegrationTime(0, rg1, DefaultDur, atRes) IN
              IF s.err # Nil
              THEN [handle |-> FALSE, err |-> s.err, maxCount |-> 0,
                    regs |-> s.regs, log |-> rd \o wr \o s.log]
              ELSE [handle |-> TRUE, err |-> Nil, maxCount |-> s.maxCount,
                    regs |-> s.regs, log |-> rd \o wr \o s.log]

\* Halt that returns nil without touching the bus
HaltStub(rg, wres) == [err |-> Nil, regs |-> rg, log |-> <<>>]

Halt(rg, wres) ==
    [err |-> wres, regs |-> WriteReg(rg, cmdEnable, 0, wres),
     log |-> <<W8(cmdEnable, 0, wres)>>]

MaxCount == maxCount

\* SetGain that returns nil without touching the bus
SetGainStub(rg, g, wres) == [err |-> Nil, regs |-> rg, log |-> <<>>]

SetGain(rg, g, wres) ==
    [err |-> wres, regs |-> WriteReg(rg, cmdGain, uint8(g), wres),
     log |-> <<W8(cmdGain, uint8(g), wres)>>]

\* MeasureRaw that goes on reading after a failed read and returns the
\* last error
MeasureRawNoStop(rs) ==
    LET c == R16(cmdReadClear, rs[1])
        r == R16(cmdReadRed, rs[2])
        g == R16(cmdReadGreen, rs[3])
        b == R16(cmdReadBlue, rs[4])
        bad == {i \in 1..4 : rs[i].err # Nil}
    IN
    [err |-> IF bad = {} THEN Nil
             ELSE rs[CHOOSE i \in bad : \A j \in bad : j <= i].err,
     vals |-> <<rs[1].val, rs[2].val, rs[3].val, rs[4].val>>,
     log |-> <<c, r, g, b>>]

\* rs is the sequence of outcomes the four channel reads would have, in
\* the order clear, red, green, blue; vals is the named result, returned
\* as it stands at the first failing read
MeasureRaw(rs) ==
    LET c == R16(cmdReadClear, rs[1])
        r == R16(cmdReadRed, rs[2])
        g == R16(cmdReadGreen, rs[3])
        b == R16(cmdReadBlue, rs[4])
    IN
    IF rs[1].err # Nil
    THEN [err |-> rs[1].err, vals |-> <<rs[1].val, 0, 0, 0>>, log |-> <<c>>]
    ELSE IF rs[2].err # Nil
    THEN [err |-> rs[2].err, vals |-> <<rs[1].val, rs[2].val, 0, 0>>,
          log |-> <<c, r>>]
    ELSE IF rs[3].err # Nil
    THEN [err |-> rs[3].err, vals |-> <<rs[1].val, rs[2].val, rs[3].val, 0>>,
          log |-> <<c, r, g>>]
    ELSE [err |-> rs[4].err,
          vals |-> <<rs[1].val, rs[2].val, rs[3].val, rs[4].val>>,
          log |-> <<c, r, g, b>>]

\* Measure that reads the clear count straight into l.Int
MeasureInPlace(l, rs) ==
    LET m == MeasureRaw(rs) IN
    IF rs[1].err # Nil
    THEN [err |-> m.err, light |-> l, log |-> m.log]
    ELSE IF m.err # Nil
    THEN [err |-> m.err, light |-> [l EXCEPT !.Int = rs[1].val],
          log |-> m.log]
    ELSE LET int == m.vals[ClearVal + 1] IN
         [err |-> Nil,
          light |-> [Int |-> int,
                     R |-> Fdiv(m.vals[RedVal + 1], int),
                     G |-> Fdiv(m.vals[GreenVal + 1], int),
                     B |-> Fdiv(m.vals[BlueVal + 1], int)],
          log |-> m.log]

Measure(l, rs) ==
    LET m == MeasureRaw(rs) IN
    IF m.err # Nil
    THEN [err |-> m.err, light |-> l, log |-> m.log]
    ELSE LET int == m.vals[ClearVal + 1] IN
         [err |-> Nil,
          light |-> [Int |-> int,
                     R |-> Fdiv(m.vals[RedVal + 1], int),
                     G |-> Fdiv(m.vals[GreenVal + 1], int),
                     B |-> Fdiv(m.vals[BlueVal + 1], int)],
          log |-> m.log]

Valid(res) ==
    IF res.err # Nil
    THEN [valid |-> FALSE, err |-> res.err, log |-> <<R8(cmdStatus, res)>>]
    ELSE [valid |-> (res.val % (2 * statusValid)) \div statusValid > 0,
          err |-> Nil, log |-> <<R8(cmdStatus, res)>>]

----------------------------------------------------------------------------
(* The state machine: a caller that opens the device and then calls the    *)
(* methods of the handle in any order.                                     *)

Init ==
    /\ handle = FALSE
    /\ maxCount = 0
    /\ regs = [r \in ConfigRegs |-> -1]
    /\ light = ZeroLight
    /\ call = [op |-> "none", arg |-> 0, err |-> Nil, ret |-> NoRet,
               log |-> <<>>]
    /\ halts = 0

\* the caller opens the device until it holds a handle, as mainImpl does
DoNew ==
    /\ ~handle
    /\ \E o \in NewOutcomes :
        LET n == New(regs, o.id, o.en, o.at) IN
        /\ handle' = n.handle
        /\ maxCount' = n.maxCount
        /\ regs' = n.regs
        /\ call' = [op |-> "New", arg |-> 0, err |-> n.err, ret |-> NoRet,
                    log |-> n.log]
        /\ halts' = 0
        /\ UNCHANGED light

DoHalt ==
    /\ handle
    /\ \E wres \in WriteRes :
        LET h == Halt(regs, wres) IN
        /\ regs' = h.regs
        /\ call' = [op |-> "Halt", arg |-> 0, err |-> h.err, ret |-> NoRet,
                    log |-> h.log]
        /\ halts' = IF h.err = Nil THEN Min(halts + 1, MaxHalts) ELSE 0
        /\ UNCHANGED <<handle, maxCount, light>>

DoSetIntegrationTime ==
    /\ handle
    /\ \E dur \in DurSet, wres \in WriteRes :
        LET s == SetIntegrationTime(maxCount, regs, dur, wres) IN
        /\ maxCount' = s.maxCount
        /\ regs' = s.regs
        /\ call' = [op |-> "SetIntegrationTime", arg |-> dur, err |-> s.err,
                    ret |-> NoRet, log |-> s.log]
        /\ halts' = 0
        /\ UNCHANGED <<handle, light>>

DoSetGain ==
    /\ handle
    /\ \E g \in Gain, wres \in WriteRes :
        LET s == SetGain(regs, g, wres) IN
        /\ regs' = s.regs
        /\ call' = [op |-> "SetGain", arg |-> g, err |-> s.err,
                    ret |-> NoRet, log |-> s.log]
        /\ halts' = 0
        /\ UNCHANGED <<handle, maxCount, light>>

DoMeasureRaw ==
    /\ handle
    /\ \E rs \in ReadSeqs :
        LET m == MeasureRaw(rs) IN
        /\ call' = [op |-> "MeasureRaw", arg |-> 0, err |-> m.err,
                    ret |-> [valid |-> FALSE, vals |-> m.vals],
                    log |-> m.log]
        /\ halts' = 0
        /\ UNCHANGED <<handle, maxCount, regs, light>>

DoMeasure ==
    /\ handle
    /\ \E rs \in ReadSeqs :
        LET m == Measure(light, rs) IN
        /\ light' = m.light
        /\ call' = [op |-> "Measure", arg |-> 0, err |-> m.err,
                    ret |-> NoRet, log |-> m.log]
        /\ halts' = 0
        /\ UNCHANGED <<handle, maxCount, regs>>

DoValid ==
    /\ handle
    /\ \E res \in ReadRes8(StatusSet) :
        LET v == Valid(res) IN
        /\ call' = [op |-> "Valid", arg |-> 0, err |-> v.err,
                    ret |-> [valid |-> v.valid, vals |-> <<0, 0, 0, 0>>],
                    log |-> v.log]
        /\ halts' = 0
        /\ UNCHANGED <<handle, maxCount, regs, light>>

Next ==
    \/ DoNew
    \/ DoHalt
    \/ DoSetIntegrationTime
    \/ DoSetGain
    \/ DoMeasureRaw
    \/ DoMeasure
    \/ DoValid

Spec == Init /\ [][Next]_vars

\* a caller that opens the device and only configures it
NextConfig ==
    \/ DoNew
    \/ DoHalt
    \/ DoSetIntegrationTime
    \/ DoSetGain
    \/ DoValid

SpecConfig == Init /\ [][NextConfig]_vars

\* a caller that opens the device, polls it and takes normalized
\* measurements, as cmd/tcs3472 does
NextMeasure ==
    \/ DoNew
    \/ DoValid
    \/ DoMeasure

SpecMeasure == Init /\ [][NextMeasure]_vars

\* a caller that opens the device and takes raw measurements
NextRaw ==
    \/ DoNew
    \/ DoValid
    \/ DoMeasureRaw

SpecRaw == Init /\ [][NextRaw]_vars

----------------------------------------------------------------------------
(* Properties.  The numbers in them are the ones the documentation and the *)
(* data sheet give, not the constants of the model.                        *)

\* all transactions of a log succeeded
AllOk(log) == \A i \in 1..Len(log) : log[i].err = Nil

\* a log of 16-bit reads of CLEAR, RED, GREEN, BLUE, in this order, cut
\* after the first failed read
ChannelReads(log) ==
    /\ Len(log) \in 1..4
    /\ \A i \in 1..Len(log) :
        /\ log[i].op = "r16"
        /\ log[i].reg = <<180, 182, 184, 186>>[i]
    /\ \A i \in 1..(Len(log) - 1) : log[i].err = Nil
    /\ log[Len(log)].err = Nil => Len(log) = 4

\* C1: when the CHIP_ID read (0x92) returns the byte id and every later
\* transaction succeeds, New returns a handle exactly if id is 0x44 or
\* 0x4D; for any other id it returns the identification error carrying id,
\* no handle, and issues no register write.
C1_ChipIDDecidesNew ==
    (call.op = "New" /\ Len(call.log) >= 1 /\ AllOk(call.log)) =>
        LET id == call.log[1].val IN
        /\ call.log[1].op = "r8" /\ call.log[1].reg = 146
        /\ handle <=> id \in {68, 77}
        /\ id \in {68, 77} => call.err = Nil
        /\ id \notin {68, 77} =>
            /\ call.err = [kind |-> "chipid", v |-> id]
            /\ ~handle
            /\ \A i \in 1..Len(call.log) : call.log[i].op # "w8"

\* New has rejected a chip that identified itself as 0x00
C1_Witness ==
    /\ call.op = "New"
    /\ call.err = [kind |-> "chipid", v |-> 0]
    /\ call.log[1].err = Nil

C3_OutOfRangeRejected ==
    [][(/\ call'.op = "SetIntegrationTime"
        /\ (call'.arg < 2400000 \/ call'.arg > 612000000)) =>
            /\ call'.err = RangeErr
            /\ call'.log = <<>>
            /\ maxCount' = maxCount
            /\ regs' = regs]_vars

\* SetIntegrationTime(1 s) has been rejected on a handle whose integration
\* time had been changed to 2.4 ms
C3_Witness ==
    /\ call.op = "SetIntegrationTime"
    /\ call.arg = 1000000000
    /\ call.err = RangeErr
    /\ MaxCount = 65535
    /\ regs[129] = 254

\* C4: on a handle returned by New, maxCount always equals
\* min(a * 1024, 65535), a being the value of the most recent ATIME write
\* that succeeded, also after a SetIntegrationTime call whose write failed.
C4_MaxCountFollowsATime ==
    handle =>
        maxCount = IF regs[129] * 1024 < 65535 THEN regs[129] * 1024
                   ELSE 65535

\* C5, as claimed: MeasureRaw reads CLEAR, RED, GREEN, BLUE in this order,
\* stops at the first failed read and returns its error, and then returns
\* no value of an earlier successful read; with four successful reads it
\* returns the four values and no error.
C5_NoPartialResult ==
    call.op = "MeasureRaw" =>
        LET n == Len(call.log) IN
        /\ ChannelReads(call.log)
        /\ call.err = call.log[n].err
        /\ call.err # Nil => \A i \in 1..(n - 1) : call.ret.vals[i] = 0
        /\ call.err = Nil =>
            \A i \in 1..4 : call.ret.vals[i] = call.log[i].val

\* C5, as the code has it: MeasureRaw reads CLEAR, RED, GREEN, BLUE in this
\* order, stops at the first failed read and returns its error; the values
\* returned next to the error still hold the counts of the reads that
\* succeeded before it, and zero for the channels never read; with four
\* successful reads it returns the four values and no error.
C5_FailFastReads ==
    call.op = "MeasureRaw" =>
        LET n == Len(call.log) IN
        /\ ChannelReads(call.log)
        /\ call.err = call.log[n].err
        /\ call.err # Nil =>
            /\ \A i \in 1..(n - 1) : call.ret.vals[i] = call.log[i].val
            /\ \A i \in (n + 1)..4 : call.ret.vals[i] = 0
        /\ call.err = Nil =>
            \A i \in 1..4 : call.ret.vals[i] = call.log[i].val

\* MeasureRaw has failed on the RED read after a CLEAR read of a non-zero
\* count
C5_Witness ==
    /\ call.op = "MeasureRaw"
    /\ Len(call.log) = 2
    /\ call.log[2].err # Nil
    /\ call.log[1].val # 0
    /\ call.err = call.log[2].err

C9_MaxCountGrows ==
    [][(call'.op = "SetIntegrationTime" /\ call'.err = Nil) =>
        /\ call'.arg = 2400000 => maxCount' = 1024
        /\ call'.arg = 612000000 => maxCount' = 65535
        /\ (/\ call.op = "SetIntegrationTime" /\ call.err = Nil
            /\ call.arg <= call'.arg) => maxCount <= maxCount']_vars

\* C10: a call of Measure issues the channel reads of MeasureRaw and no
\* write; when a read fails it returns that read's error and leaves the
\* Light as it was; when all succeed it sets Int to the clear count and
\* R, G, B to red/clear, green/clear, blue/clear; maxCount and the
\* registers stay as they were.
IsQuotient(q, num, den) ==
    IF den = 0
    THEN q.k = IF num = 0 THEN "nan" ELSE "inf"
    ELSE q.k = "fin" /\ q.d > 0 /\ q.n * den = num * q.d

====
